---- MODULE Spec2Model ----
(***************************************************************************)
(* The DAG commit rule of consensus/src/dag/commit_rule.rs.                *)
(*                                                                         *)
(* A certified node is a record [round, author, parents]; parents is the   *)
(* set of authors of the round-1 nodes it links to.  The record itself     *)
(* stands for the node's digest.  The Dag store, the anchor election and   *)
(* the quorum verifier are collaborators of CommitRule; their operations   *)
(* are modelled from their contract in the specification (sections 3, 4.1  *)
(* and 4.2).                                                               *)
(***************************************************************************)
EXTENDS Integers, Sequences, FiniteSets, TLC

\* ---------------------------------------------------------------- bounds
NumValidators == 3
MaxRound == 4
MaxNodes == 7
MaxLedgerRound == 0
MaxParents == 2

Authors == 0 .. (NumValidators - 1)
Rounds == 1 .. MaxRound

\* The absent node (Option::None).
None == [round |-> 0, author |-> 0, parents |-> {}]

VARIABLES
    dag,                    \* Dag: the certified nodes inserted so far
    ordered,                \* the nodes whose ordered flag is true
    lowest_unordered_round, \* CommitRule.lowest_unordered_round
    ordered_block_id,       \* CommitRule.ordered_block_id
    sink,                   \* the messages sent into CommitRule.commit_sender
    ledger_round,           \* latest_ledger_info.commit_info().round()
    pc,                     \* position of the commit rule's thread
    round,                  \* new_node: let round = node.round(), of the last call
    current_anchor,         \* find_first_anchor_to_commit: current_anchor
    anchor_round,           \* find_first_anchor_to_commit: anchor_round
    finalized               \* history of finalize_order: each call's anchor and locals

vars == <<dag, ordered, lowest_unordered_round, ordered_block_id, sink,
          ledger_round, pc, round, current_anchor, anchor_round, finalized>>

\* ------------------------------------------------- collaborators (contract)

\* AnchorElection::get_anchor: a pure total function round -> author.
get_anchor(r) == r % NumValidators

\* The quorum verifier (EpochState.verifier): validator 0 has stake 2, every
\* other validator stake 1; a quorum is a set of authors whose stake exceeds
\* two thirds of the total (2f+1).
VotingPower(a) == IF a = 0 THEN 2 ELSE 1

RECURSIVE SumVotingPower(_)
SumVotingPower(authors) ==
    IF authors = {} THEN 0
    ELSE LET a == CHOOSE x \in authors : TRUE
         IN  VotingPower(a) + SumVotingPower(authors \ {a})

TotalVotingPower == SumVotingPower(0 .. (NumValidators - 1))
QuorumVotingPower == (2 * TotalVotingPower) \div 3 + 1
check_voting_power(authors) == SumVotingPower(authors) >= QuorumVotingPower

\* Dag::get_node_by_round_author
get_node_by_round_author(r, a) ==
    IF \E n \in dag : n.round = r /\ n.author = a
    THEN CHOOSE n \in dag : n.round = r /\ n.author = a
    ELSE None

\* The parents of a node that are present in the Dag.
ParentsOf(n) == {m \in dag : m.round + 1 = n.round /\ m.author \in n.parents}

\* Dag::check_votes_for_node: the nodes of the next round that have the
\* anchor among their parents carry a quorum of stake.
Votes(metadata) ==
    {n.author : n \in {m \in dag : m.round = metadata.round + 1
                                   /\ metadata.author \in m.parents}}
check_votes_for_node(metadata) == check_voting_power(Votes(metadata))

\* The transitive closure over parent edges of a set of nodes; includes them.
RECURSIVE Closure(_)
Closure(S) ==
    LET P == UNION {ParentsOf(n) : n \in S}
    IN  IF P \subseteq S THEN S ELSE Closure(S \cup P)

ReachableSet(start) == Closure({start})

\* The fixed total order on (round, author) that every validator sorts by.
NodeLess(a, b) ==
    \/ a.round < b.round
    \/ a.round = b.round /\ a.author < b.author

RECURSIVE SortNodes(_)
SortNodes(S) ==
    IF S = {} THEN <<>>
    ELSE LET m == CHOOSE x \in S : \A y \in S \ {x} : NodeLess(x, y)
         IN  <<m>> \o SortNodes(S \ {m})

\* Dag::reachable(start, floor): every node reachable from start whose round
\* is >= floor, parents before children.  floor None is passed as 0.
reachable(start, floor) ==
    SortNodes({m \in ReachableSet(start) : m.round >= floor})

\* Dag::reachable_mut(start, floor): the same nodes, mutable.
reachable_mut(start, floor) == reachable(start, floor)

\* NodeStatus::mark_as_ordered asserts that the ordered flag is false.
MarkAsOrderedAsserts(n) == n \notin ordered

\* ------------------------------------------------------------ CommitRule

\* CommitRule::new
NewOrderedBlockId(lr) == [round |-> lr, author |-> -1, parents |-> {}]
NewLowestUnorderedRound(lr) == lr + 1

\* Mutant of ScanAnchors: the scan includes the target round.
RECURSIVE ScanAnchors_Inclusive(_, _)
ScanAnchors_Inclusive(current_round, target_round) ==
    IF ~(current_round <= target_round) THEN None
    ELSE LET anchor_author == get_anchor(current_round)
             anchor_node == get_node_by_round_author(current_round, anchor_author)
         IN  IF anchor_node # None /\ check_votes_for_node(anchor_node)
             THEN anchor_node
             ELSE ScanAnchors_Inclusive(current_round + 2, target_round)

\* Mutant of ScanAnchors: the scan visits every round, not every second one.
RECURSIVE ScanAnchors_EveryRound(_, _)
ScanAnchors_EveryRound(current_round, target_round) ==
    IF ~(current_round < target_round) THEN None
    ELSE LET anchor_author == get_anchor(current_round)
             anchor_node == get_node_by_round_author(current_round, anchor_author)
         IN  IF anchor_node # None /\ check_votes_for_node(anchor_node)
             THEN anchor_node
             ELSE ScanAnchors_EveryRound(current_round + 1, target_round)

\* find_first_anchor_with_enough_votes: the while loop from current_round.
RECURSIVE ScanAnchors(_, _)
ScanAnchors(current_round, target_round) ==
    IF ~(current_round < target_round) THEN None
    ELSE LET anchor_author == get_anchor(current_round)
             anchor_node == get_node_by_round_author(current_round, anchor_author)
         IN  IF anchor_node # None /\ check_votes_for_node(anchor_node)
             THEN anchor_node
             ELSE ScanAnchors(current_round + 2, target_round)

find_first_anchor_with_enough_votes(target_round) ==
    ScanAnchors(lowest_unordered_round, target_round)

\* Mutant of is_anchor: the parity test is dropped.
is_anchor_AnyParity(metadata, a_round) ==
    metadata.author = get_anchor(metadata.round)

\* find_first_anchor_to_commit: the closure is_anchor.
is_anchor(metadata, a_round) ==
    /\ (metadata.round % 2) = (a_round % 2)
    /\ metadata.author = get_anchor(metadata.round)

\* find_first_anchor_to_commit: one evaluation of the while-let condition,
\* reachable(current, Some(lowest_unordered_round)).find(is_anchor).
FindNextAnchor(current, a_round) ==
    LET found == SelectSeq(reachable(current, lowest_unordered_round),
                           LAMBDA n : is_anchor(n, a_round))
    IN  IF found = <<>> THEN None ELSE Head(found)

\* finalize_order: the failed anchors of the rounds below the anchor.
RECURSIVE FailedAnchors(_, _)
FailedAnchors(from, to) ==
    IF ~(from < to) THEN <<>>
    ELSE <<get_anchor(from)>> \o FailedAnchors(from + 2, to)

\* Mutants of AdvancedRound: the cursor set below the anchor round, and the
\* cursor left on the anchor round.
AdvancedRound_Below(anchor) == anchor.round - 1
AdvancedRound_NoStep(anchor) == anchor.round

\* finalize_order: the new value of lowest_unordered_round.
AdvancedRound(anchor) == anchor.round + 1

\* Mutant of MarkedPrefix: every yielded node is collected, mark_as_ordered
\* is not called on it.
MarkedPrefix_Unmarked(s) == s

\* Mutant of MarkedPrefix: the node whose ordered flag is already true is
\* collected before the iteration halts.
RECURSIVE MarkedPrefix_ThroughOrdered(_)
MarkedPrefix_ThroughOrdered(s) ==
    IF s = <<>> THEN <<>>
    ELSE IF ~MarkAsOrderedAsserts(Head(s)) THEN <<Head(s)>>
    ELSE <<Head(s)>> \o MarkedPrefix_ThroughOrdered(Tail(s))

\* finalize_order: the prefix of the reachable_mut iteration that is marked
\* before mark_as_ordered's assertion fails (all of it when it never fails).
RECURSIVE MarkedPrefix(_)
MarkedPrefix(s) ==
    IF s = <<>> THEN <<>>
    ELSE IF ~MarkAsOrderedAsserts(Head(s)) THEN <<>>
    ELSE <<Head(s)>> \o MarkedPrefix(Tail(s))

SeqToSet(s) == {s[i] : i \in 1 .. Len(s)}

\* new_node: the head of the while loop with the cursor at `cursor`: the
\* anchor search for the target round, and where the thread goes next.
LoopHead(cursor, target_round) ==
    LET direct_anchor == ScanAnchors(cursor, target_round)
    IN  IF cursor <= target_round /\ direct_anchor # None
        THEN [pc |-> "backfill", round |-> target_round,
              current_anchor |-> direct_anchor,
              anchor_round |-> direct_anchor.round]
        ELSE [pc |-> "idle", round |-> target_round, current_anchor |-> None,
              anchor_round |-> 0]

\* Mutant of CommitNodes: the nodes are collected children first.
CommitNodes_ChildrenFirst(anchor) ==
    LET s == reachable_mut(anchor, 0)
    IN  [i \in 1 .. Len(s) |-> s[Len(s) + 1 - i]]

\* Mutant of CommitNodes: the anchor's round passed as the floor.
CommitNodes_Floor(anchor) == reachable_mut(anchor, anchor.round)

\* finalize_order: the nodes collected from reachable_mut(&anchor, None).
CommitNodes(anchor) == reachable_mut(anchor, 0)

\* finalize_order(anchor).  `after` is the position of the thread once the
\* call has returned (a record as LoopHead gives).
FinalizeOrder(anchor, after) ==
    LET failed_anchors == FailedAnchors(lowest_unordered_round, anchor.round)
        yielded == CommitNodes(anchor)
        marked == MarkedPrefix(yielded)
        completed == (marked = yielded)
    IN  /\ lowest_unordered_round' = AdvancedRound(anchor)
        /\ ordered' = ordered \cup SeqToSet(marked)
        /\ finalized' = Append(finalized,
                [anchor |-> anchor, commit_nodes |-> marked,
                 failed_anchors |-> failed_anchors, completed |-> completed])
        /\ IF completed
           THEN /\ pc' = after.pc
                /\ round' = after.round
                /\ current_anchor' = after.current_anchor
                /\ anchor_round' = after.anchor_round
           ELSE /\ pc' = "aborted"
                /\ UNCHANGED <<round, current_anchor, anchor_round>>
        /\ UNCHANGED <<dag, ordered_block_id, sink, ledger_round>>

\* --------------------------------------------------------------- actions

Init ==
    /\ dag = {}
    /\ ordered = {}
    /\ ledger_round \in 0 .. MaxLedgerRound
    /\ lowest_unordered_round = NewLowestUnorderedRound(ledger_round)
    /\ ordered_block_id = NewOrderedBlockId(ledger_round)
    /\ sink = <<>>
    /\ pc = "idle"
    /\ round = 0
    /\ current_anchor = None
    /\ anchor_round = 0
    /\ finalized = <<>>

\* The DAG layer certifies a node and inserts it: its parents are present.
AddNode(n) ==
    /\ pc = "idle"
    /\ Cardinality(dag) < MaxNodes
    /\ get_node_by_round_author(n.round, n.author) = None
    /\ IF n.round = 1 THEN n.parents = {}
       ELSE /\ n.parents # {}
            /\ Cardinality(n.parents) <= MaxParents
            /\ \A a \in n.parents : get_node_by_round_author(n.round - 1, a) # None
    /\ dag' = dag \cup {n}
    /\ UNCHANGED <<ordered, lowest_unordered_round, ordered_block_id, sink,
                   ledger_round, pc, round, current_anchor, anchor_round,
                   finalized>>

\* Mutant of NewNode: the call returns after recording the round, whatever the
\* anchor search would find.
NewNode_NoCommit(n) ==
    /\ pc = "idle"
    /\ n \in dag
    /\ round' = n.round
    /\ UNCHANGED <<dag, ordered, lowest_unordered_round, ordered_block_id, sink,
                   ledger_round, pc, current_anchor, anchor_round, finalized>>

\* new_node(node): entry and the first evaluation of the loop head.  The call
\* returns at once when the search finds no anchor.
NewNode(n) ==
    /\ pc = "idle"
    /\ n \in dag
    /\ LET next == LoopHead(lowest_unordered_round, n.round)
       IN  /\ pc' = next.pc
           /\ round' = next.round
           /\ current_anchor' = next.current_anchor
           /\ anchor_round' = next.anchor_round
    /\ UNCHANGED <<dag, ordered, lowest_unordered_round, ordered_block_id, sink,
                   ledger_round, finalized>>

\* find_first_anchor_to_commit: one iteration of the while-let loop.  When the
\* search yields nothing the function returns current_anchor, new_node
\* finalizes it and evaluates the loop head again.
Backfill ==
    /\ pc = "backfill"
    /\ LET next_anchor == FindNextAnchor(current_anchor, anchor_round)
       IN  IF next_anchor # None
           THEN /\ current_anchor' = next_anchor
                /\ UNCHANGED <<dag, ordered, lowest_unordered_round,
                               ordered_block_id, sink, ledger_round, pc, round,
                               anchor_round, finalized>>
           ELSE FinalizeOrder(current_anchor,
                              LoopHead(AdvancedRound(current_anchor), round))

\* The values current_anchor takes in find_first_anchor_to_commit(direct).
RECURSIVE BackfillValues(_, _)
BackfillValues(current, a_round) ==
    LET next_anchor == FindNextAnchor(current, a_round)
    IN  IF next_anchor = None \/ next_anchor = current THEN {current}
        ELSE {current} \cup BackfillValues(next_anchor, a_round)

\* The anchors the commit rule designates for a target round.
CommitCandidates(target_round) ==
    LET direct_anchor == find_first_anchor_with_enough_votes(target_round)
    IN  IF direct_anchor = None THEN {}
        ELSE BackfillValues(direct_anchor, direct_anchor.round)

\* The anchors the commit rule designates for some target round: the scan
\* returns its first hit, so the target above every round gives them all.
DesignatedAnchors == CommitCandidates(MaxRound + 1)

\* finalize_order is public: a call, between two new_node calls, on an anchor
\* the rule designates.
FinalizeOrderCall(anchor) ==
    /\ pc = "idle"
    /\ anchor \in DesignatedAnchors
    /\ FinalizeOrder(anchor, [pc |-> "idle", round |-> round,
                              current_anchor |-> None, anchor_round |-> 0])

NodeUniverse ==
    [round : Rounds, author : Authors, parents : SUBSET Authors]

Next ==
    \/ \E n \in NodeUniverse : AddNode(n)
    \/ \E n \in dag : NewNode(n)
    \/ Backfill
    \/ \E anchor \in DesignatedAnchors : FinalizeOrderCall(anchor)

Spec == Init /\ [][Next]_vars

\* ---------------------------------------------------------------- claims

Last(s) == s[Len(s)]
FinalizeStep == finalized' # finalized
Completed(i) == finalized[i].completed
InitialCursor == NewLowestUnorderedRound(ledger_round)

\* C1: the round parity of lowest_unordered_round never changes: after every
\* finalize_order the cursor has the parity of its initial value
\* (committed.round + 1).
C1_CursorParityConstant ==
    lowest_unordered_round % 2 = InitialCursor % 2

\* C2: no node is collected into more than one commit batch: the nodes a
\* finalize_order call collects are disjoint from the nodes every earlier call
\* collected, also when the call's anchor reaches them.
C2_NoNodeCollectedTwice ==
    \A j \in 1 .. Len(finalized) : \A i \in 1 .. (j - 1) :
        SeqToSet(finalized[i].commit_nodes)
            \cap SeqToSet(finalized[j].commit_nodes) = {}

\* C2 witness: finalize_order has run on an anchor that reaches a node an
\* earlier call collected.
C2_Witness ==
    \E j \in 1 .. Len(finalized) : \E i \in 1 .. (j - 1) :
        SeqToSet(finalized[i].commit_nodes)
            \cap ReachableSet(finalized[j].anchor) # {}

\* C4: lowest_unordered_round never decreases, and every anchor handed to
\* finalize_order, or held by the backfill for it, has a round >= the cursor
\* at that moment.
C4_CursorMonotone ==
    [][/\ lowest_unordered_round' >= lowest_unordered_round
       /\ FinalizeStep => Last(finalized').anchor.round >= lowest_unordered_round
       /\ pc' = "backfill" => current_anchor'.round >= lowest_unordered_round'
      ]_vars

\* C4 witness: a finalize_order call has advanced the cursor.
C4_Witness ==
    /\ finalized # <<>>
    /\ lowest_unordered_round > InitialCursor

\* C5: every node whose ordered flag is true has all of its parents' ordered
\* flags true.
C5_OrderedParentsOrdered ==
    \A n \in ordered : ParentsOf(n) \subseteq ordered

\* C5 witness: a completed finalize_order has ordered a node together with its
\* parents.
C5_Witness ==
    /\ pc = "idle"
    /\ \E n \in ordered : Cardinality(ParentsOf(n)) >= 2

\* C6: the anchors passed to successive finalize_order calls have strictly
\* increasing rounds.
C6_AnchorRoundsIncrease ==
    \A j \in 1 .. Len(finalized) : \A i \in 1 .. (j - 1) :
        finalized[i].anchor.round < finalized[j].anchor.round

\* C6 witness: two finalize_order calls have completed.
C6_Witness ==
    /\ Len(finalized) >= 2
    /\ Completed(1) /\ Completed(2)

\* The batches of the completed finalize_order calls, in order.
CompletedBatches == SelectSeq(finalized, LAMBDA f : f.completed)

\* C7: the sink holds exactly one OrderedBlocks message per finalize_order
\* performed, in the order of the finalizations, each carrying its batch.
C7_OneMessagePerFinalize ==
    /\ Len(sink) = Len(CompletedBatches)
    /\ \A i \in 1 .. Len(sink) :
        /\ sink[i].anchor = CompletedBatches[i].anchor
        /\ sink[i].commit_nodes = CompletedBatches[i].commit_nodes

\* C8: after finalize_order(A) the cursor pair is (identity of A, A.round + 1);
\* ordered_block_id is the ledger-info commit id only while nothing has been
\* committed.
C8_CursorPair ==
    IF finalized = <<>>
    THEN /\ ordered_block_id = NewOrderedBlockId(ledger_round)
         /\ lowest_unordered_round = InitialCursor
    ELSE /\ ordered_block_id = Last(finalized).anchor
         /\ lowest_unordered_round = Last(finalized).anchor.round + 1

\* The elected anchor of round c + 1 exists and the nodes of round c + 2 that
\* have it as a parent carry a quorum.
StraightLine(c) ==
    LET anchor == get_node_by_round_author(c + 1, get_anchor(c + 1))
    IN  anchor # None /\ check_votes_for_node(anchor)

\* C9: with the cursor at c, the elected anchor of round c + 1 present and
\* voted by a quorum at round c + 2, a new_node call with a node of round
\* c + 2 that returns has committed that anchor: the batch is the anchor's
\* causal closure and the cursor is c + 2.
C9_StraightLineCommit ==
    [][(/\ pc = "idle" /\ pc' = "idle"
        /\ round' # round
        /\ round' = lowest_unordered_round + 2
        /\ StraightLine(lowest_unordered_round))
       => (/\ lowest_unordered_round' = lowest_unordered_round + 2
           /\ FinalizeStep
           /\ Last(finalized').anchor =
                get_node_by_round_author(lowest_unordered_round + 1,
                                         get_anchor(lowest_unordered_round + 1))
           /\ SeqToSet(Last(finalized').commit_nodes) =
                ReachableSet(Last(finalized').anchor))
      ]_vars

\* C10: when the anchor search returns A0 and the anchor committed for it is an
\* earlier anchor A1 (A1.round < A0.round), the next loop iteration with the
\* same target round finds A0 again, the cursor being A1.round + 1.
C10_BackfillThenDirect ==
    [][LET A0 == find_first_anchor_with_enough_votes(MaxRound + 1)
       IN  (/\ FinalizeStep
            /\ A0 # None
            /\ Last(finalized').anchor.round < A0.round)
           => (/\ lowest_unordered_round' = Last(finalized').anchor.round + 1
               /\ LoopHead(lowest_unordered_round', MaxRound + 1).current_anchor
                    = A0)
      ]_vars

\* The position of a new_node call that returns without an iteration.
Returned(target_round) ==
    [pc |-> "idle", round |-> target_round, current_anchor |-> None,
     anchor_round |-> 0]

\* A step in which a new_node call runs from entry to return: the thread is
\* idle before and after, and the round of the last call changes (every other
\* step of an idle thread leaves it unchanged).
NewNodeReturns ==
    /\ pc = "idle" /\ pc' = "idle"
    /\ round' # round

C12_CommitAdvancesByTwo ==
    [][FinalizeStep
       => lowest_unordered_round' >= lowest_unordered_round + 2
      ]_vars

\* C13: every operation terminates: an iteration of the backfill loop of
\* find_first_anchor_to_commit either ends the loop (its search yields nothing
\* and current_anchor is returned) or moves current_anchor to another anchor.
\* It never finds current_anchor itself: that iteration would leave the whole
\* state of the loop as it was, so the loop would repeat it for ever and the
\* new_node call around it would not return.
C13_BackfillTerminates ==
    pc = "backfill"
    => FindNextAnchor(current_anchor, anchor_round) # current_anchor

\* The rounds the anchor search visits for a target: L, L + 2, ... below it.
ScannedRounds(target_round) ==
    {r \in lowest_unordered_round .. (target_round - 1) :
        (r - lowest_unordered_round) % 2 = 0}

\* The elected author of round r has a node and it carries a quorum of votes.
VotedAnchorAt(r) ==
    LET n == get_node_by_round_author(r, get_anchor(r))
    IN  n # None /\ check_votes_for_node(n)

\* C14: find_first_anchor_with_enough_votes(target) returns the node at
\* (r, get_anchor(r)) for the smallest r in {L, L + 2, ...}, r < target, at
\* which that node exists and has the votes, and None when there is no such
\* r; a round whose elected author has no node is skipped.
C14_AnchorSearchResult ==
    \A target_round \in 0 .. (MaxRound + 1) :
        LET hits == {r \in ScannedRounds(target_round) : VotedAnchorAt(r)}
            result == find_first_anchor_with_enough_votes(target_round)
        IN  IF hits = {} THEN result = None
            ELSE \E r \in hits :
                    /\ \A q \in hits : r <= q
                    /\ result = get_node_by_round_author(r, get_anchor(r))

\* C14 witness: the elected author of the cursor round has no node, the
\* search skips the round and returns the anchor of a later round.
C14_Witness ==
    /\ get_node_by_round_author(lowest_unordered_round,
                                get_anchor(lowest_unordered_round)) = None
    /\ find_first_anchor_with_enough_votes(MaxRound + 1) # None
    /\ find_first_anchor_with_enough_votes(MaxRound + 1).round
            > lowest_unordered_round

\* The anchors the backfill of A0 can select: the nodes reachable from A0 with
\* a round >= the cursor, the round parity of A0 and the elected author.
ReachableAnchors(A0) ==
    {m \in ReachableSet(A0) :
        m.round >= lowest_unordered_round /\ is_anchor(m, A0.round)}

\* The one of them with the lowest round.
EarliestAnchor(A0) ==
    CHOOSE m \in ReachableAnchors(A0) :
        \A o \in ReachableAnchors(A0) : m.round <= o.round

\* The anchor find_first_anchor_to_commit was called with.
DirectAnchor == get_node_by_round_author(anchor_round, get_anchor(anchor_round))

\* C15: find_first_anchor_to_commit(A0) returns the earliest anchor: once
\* current_anchor is the lowest-round anchor reachable from A0 at or above
\* the cursor, the search of the while-let condition yields nothing, the loop
\* ends and that anchor is returned.
C15_ReturnsEarliestAnchor ==
    (pc = "backfill" /\ current_anchor = EarliestAnchor(DirectAnchor))
    => FindNextAnchor(current_anchor, anchor_round) = None

\* C16: the node find_first_anchor_to_commit(A0) holds to return is always an
\* anchor and never a voting-round node: it is A0 or reachable from A0, its
\* round has the parity of A0.round, its author is the elected author of its
\* round, and its round lies in [lowest_unordered_round, A0.round].
C16_ReturnedIsAnchor ==
    pc = "backfill"
    => /\ current_anchor \in ReachableSet(DirectAnchor)
       /\ current_anchor.round % 2 = DirectAnchor.round % 2
       /\ current_anchor.author = get_anchor(current_anchor.round)
       /\ current_anchor.round >= lowest_unordered_round
       /\ current_anchor.round <= DirectAnchor.round

\* C16 witness: the backfill has moved from A0 to an earlier anchor although
\* A0 also reaches a node of a voting round whose author is the elected one.
C16_Witness ==
    /\ pc = "backfill"
    /\ current_anchor.round < DirectAnchor.round
    /\ \E m \in ReachableSet(DirectAnchor) :
            /\ m.round % 2 # DirectAnchor.round % 2
            /\ m.author = get_anchor(m.round)

\* The stake carried by the votes for a node.
VoteStake(n) == SumVotingPower(Votes(n))

\* The elected node of the cursor round (None when absent).
CursorAnchor ==
    get_node_by_round_author(lowest_unordered_round,
                             get_anchor(lowest_unordered_round))

\* No commit below the quorum: the backfill is entered only for a direct
\* anchor whose votes carry at least 2f+1 stake, and with the anchor of the
\* cursor round one short (exactly 2f) and no later anchor with a quorum,
\* every new_node call returns at its first loop head.
NoCommitBelowQuorum ==
    /\ pc = "backfill" => VoteStake(DirectAnchor) >= QuorumVotingPower
    /\ (/\ CursorAnchor # None
        /\ VoteStake(CursorAnchor) = QuorumVotingPower - 1
        /\ \A r \in ScannedRounds(MaxRound + 1) :
                r > lowest_unordered_round => ~VotedAnchorAt(r))
       => \A n \in dag :
            LoopHead(lowest_unordered_round, n.round) = Returned(n.round)

\* C17: quorum boundary.  new_node goes on to commit only for a direct anchor
\* whose votes carry at least 2f+1 stake; with the anchor of the cursor round
\* one short (exactly 2f) and no later anchor with a quorum, no new_node call
\* commits anything; with exactly 2f+1, a new_node call of a round above the
\* anchor's commits it: its backfill, holding that anchor, finds no earlier
\* one and returns it to be finalized.
C17_QuorumBoundary ==
    /\ NoCommitBelowQuorum
    /\ (/\ pc = "backfill"
        /\ current_anchor = CursorAnchor
        /\ VoteStake(CursorAnchor) = QuorumVotingPower)
       => FindNextAnchor(current_anchor, anchor_round) = None

\* C18: whenever lowest_unordered_round >= node.round, new_node(node) is a
\* no-op: its first loop head ends the call (for equality the search scans no
\* round and returns None, above it the loop is not entered), so there is no
\* finalize_order and the cursor and the ordered flags stay as they are.
C18_NoOpAtOrBelowCursor ==
    \A n \in dag :
        lowest_unordered_round >= n.round
        => LoopHead(lowest_unordered_round, n.round) = Returned(n.round)

\* C18 witness: new_node was called with a node of the cursor round and has
\* returned, and the elected anchor of the cursor round has a quorum of votes.
C18_Witness ==
    /\ pc = "idle"
    /\ round = lowest_unordered_round
    /\ \E n \in dag : n.round = round
    /\ VotedAnchorAt(lowest_unordered_round)

\* C19: finalize_order halts on an invariant violation instead of producing
\* a batch: when a node that reachable_mut(A, None) yields already has its
\* ordered flag true, the call ends in the abort state, its collection is
\* not completed, no node whose flag was true is collected again, and
\* nothing is sent.
C19_HaltsOnOrderedNode ==
    [][(FinalizeStep /\ ReachableSet(Last(finalized').anchor) \cap ordered # {})
       => /\ pc' = "aborted"
          /\ ~Last(finalized').completed
          /\ SeqToSet(Last(finalized').commit_nodes) \cap ordered = {}
          /\ sink' = sink
      ]_vars

\* C19 witness: a finalize_order call has halted on an anchor that reaches a
\* node an earlier call ordered.
C19_Witness ==
    /\ pc = "aborted"
    /\ Len(finalized) >= 2
    /\ ~Last(finalized).completed
    /\ ReachableSet(Last(finalized).anchor)
            \cap SeqToSet(finalized[1].commit_nodes) # {}

\* Every node of the sequence comes after all of its parents.
ParentsFirst(s) ==
    \A j \in 1 .. Len(s) : ParentsOf(s[j]) \subseteq {s[i] : i \in 1 .. (j - 1)}

\* C20: a finalize_order(A) call leaves the ordered flag of every node not
\* reachable from A as it was; after a call that completes every node
\* reachable from A has its flag true, and the batch built for A lists
\* exactly the newly ordered nodes, each once, every parent before its
\* children.
C20_FinalizeOrdersClosure ==
    [][FinalizeStep
       => LET f == Last(finalized')
              R == ReachableSet(f.anchor)
          IN  /\ ordered' \ R = ordered \ R
              /\ f.completed
                 => /\ R \subseteq ordered'
                    /\ SeqToSet(f.commit_nodes) = ordered' \ ordered
                    /\ Len(f.commit_nodes) = Cardinality(ordered' \ ordered)
                    /\ ParentsFirst(f.commit_nodes)
      ]_vars

\* C20 witness: a finalize_order call has completed with a batch of a node
\* and its parent while an earlier call's nodes, not reachable from its
\* anchor, were already ordered.
C20_Witness ==
    /\ Len(finalized) >= 2
    /\ Last(finalized).completed
    /\ Len(Last(finalized).commit_nodes) >= 2
    /\ ordered \ ReachableSet(Last(finalized).anchor) # {}

\* lowest_unordered_round at the entry of the i-th finalize_order call: the
\* cursor is written by finalize_order only.
CursorBefore(i) ==
    IF i = 1 THEN InitialCursor ELSE finalized[i - 1].anchor.round + 1

\* The list [get_anchor(r) : r = L, L + 2, ... with r < A.round] of the i-th
\* call, L being the cursor at its entry.
ExpectedFailedAnchors(i) ==
    LET L == CursorBefore(i)
        A == finalized[i].anchor
        count == IF A.round > L THEN (A.round - L + 1) \div 2 ELSE 0
    IN  [k \in 1 .. count |-> get_anchor(L + 2 * (k - 1))]

\* Every finalize_order call has computed that list from the cursor it
\* entered with.
FailedAnchorListComputed ==
    \A i \in 1 .. Len(finalized) :
        finalized[i].failed_anchors = ExpectedFailedAnchors(i)

\* A call has computed a list that is not empty, for a skipped round whose
\* elected author has no node.
SilentAnchorFailed ==
    \E i \in 1 .. Len(finalized) :
        /\ finalized[i].failed_anchors # <<>>
        /\ get_node_by_round_author(CursorBefore(i),
                                    get_anchor(CursorBefore(i))) = None

\* C21: the output of finalize_order(A) carries the failed-anchor list
\* [get_anchor(r) : r = L, L + 2, ... with r < A.round], L being
\* lowest_unordered_round before the cursor is advanced (empty when
\* A.round = L): every call computes that list, and the message a completed
\* call puts into the sink holds it.
C21_OutputCarriesFailedAnchors ==
    /\ FailedAnchorListComputed
    /\ \A i \in 1 .. Len(finalized) :
            finalized[i].completed
            => /\ Len(sink) >= i
               /\ sink[i].failed_anchors = ExpectedFailedAnchors(i)

====
